---- MODULE Spec2Model ----
(***************************************************************************)
(* Model of sudoku.py: the board SudokuTable (a list of lists of optional  *)
(* integers), its uniqueness checks, the constrained board SmartSuduko     *)
(* and its recursive backtracking solver __solve, run as a machine over    *)
(* an explicit call stack.                                                 *)
(*                                                                         *)
(* A cell holds None or an integer; None is written 0 in a cell (set      *)
(* refuses the integer 0, so no stored integer is mistaken for None).      *)
(* A value handed to set is a record [kind, int] so that integers, None    *)
(* and values of another type stay apart.                                  *)
(***************************************************************************)
EXTENDS Integers, Sequences, FiniteSets, TLC

VARIABLES block_size, table, stack, ret, outcome, pre, calls, assigned,
          trials, twin

vars == <<block_size, table, stack, ret, outcome, pre, calls, assigned,
          trials, twin>>

\* ------------------------------------------------------------- bounds --
\* Number of set/clear/reset calls made on one board.
MaxCalls == 2

\* Largest cell value the callers of set hand over (solve tries 1..n).
MaxValue == 1

\* Block sizes of the boards built (n = 1 and n = 4).
BlockSizes == {1, 2}

\* ------------------------------------------------------ python values --
None == 0

NoneValue == [kind |-> "None", int |-> 0]

IntValue(k) == [kind |-> "int", int |-> k]

OtherValue == [kind |-> "str", int |-> 0]

\* The value a cell holds, as the object handed back to set.
CellValue(x) == IF x = None THEN NoneValue ELSE IntValue(x)

\* Python list index: 0..len-1, negative indices count from the end;
\* 0 stands for IndexError.
PyIndex(len, i) ==
    IF i >= 0 /\ i < len THEN i + 1
    ELSE IF i < 0 /\ i >= -len THEN len + i + 1
    ELSE 0

getitem(list, i) == list[PyIndex(Len(list), i)]

\* range(a, b) as a sequence
range(a, b) == [k \in 1..(IF b > a THEN b - a ELSE 0) |-> a + k - 1]

\* -------------------------------------------------------- SudokuTable --
size(b) == b * b

build_table(b) == [r \in 1..size(b) |-> [c \in 1..size(b) |-> None]]

\* self._table[row - 1][col - 1] names a cell: neither index raises IndexError
InRange(t, row, col) ==
    /\ PyIndex(Len(t), row - 1) # 0
    /\ PyIndex(Len(t[PyIndex(Len(t), row - 1)]), col - 1) # 0

\* What the IndexError of an assignment to self._table[row - 1][col - 1]
\* says: the row is looked up, the column is assigned to.
IndexMessage(t, row) ==
    IF PyIndex(Len(t), row - 1) = 0
    THEN "list index out of range"
    ELSE "list assignment index out of range"

get(t, row, col) == getitem(getitem(t, row - 1), col - 1)

\* row and column swapped: self._table[col - 1][row - 1] = x
setitem_transposed(t, row, col, x) ==
    LET ri == PyIndex(Len(t), col - 1)
        ci == PyIndex(Len(t[ri]), row - 1)
    IN [t EXCEPT ![ri][ci] = x]

\* self._table[row - 1][col - 1] = x
setitem(t, row, col, x) ==
    LET ri == PyIndex(Len(t), row - 1)
        ci == PyIndex(Len(t[ri]), col - 1)
    IN [t EXCEPT ![ri][ci] = x]

\* The outcome of a call that may raise: the exception ("none" if the call
\* returns), its message, and the table afterwards.
Raise(exc, msg, t) == [exc |-> exc, msg |-> msg, table |-> t]

Return(t) == [exc |-> "none", msg |-> "", table |-> t]

\* the upper limit of the value is not tested
set_no_upper(t, row, col, value) ==
    IF value.kind \notin {"int", "None"}
    THEN Raise("TypeError", "Value must be an integer (or None)", t)
    ELSE IF value.kind = "int" /\ value.int < 1
    THEN Raise("ValueError", "Value must be between 1 and size", t)
    ELSE IF ~InRange(t, row, col)
    THEN Raise("IndexError", IndexMessage(t, row), t)
    ELSE Return(setitem(t, row, col,
                        IF value.kind = "None" THEN None ELSE value.int))

\* SudokuTable.set
set(t, row, col, value) ==
    IF value.kind \notin {"int", "None"}
    THEN Raise("TypeError", "Value must be an integer (or None)", t)
    ELSE IF value.kind = "int" /\ (value.int < 1 \/ value.int > Len(t))
    THEN Raise("ValueError", "Value must be between 1 and size", t)
    ELSE IF ~InRange(t, row, col)
    THEN Raise("IndexError", IndexMessage(t, row), t)
    ELSE Return(setitem(t, row, col,
                        IF value.kind = "None" THEN None ELSE value.int))

clear(t, row, col) == setitem(t, row, col, None)

\* [item for item in to_check if item is not None]
NotNone(x) == x # None

check_unique_list(to_check) ==
    LET kept == SelectSeq(to_check, NotNone)
    IN Cardinality({kept[k] : k \in 1..Len(kept)}) = Len(kept)

check_row(t, row) == check_unique_list(getitem(t, row - 1))

check_col(t, col) ==
    check_unique_list([k \in 1..Len(t) |-> getitem(t[k], col - 1)])

\* The (row, col) pairs the two loops of check_block visit, in order.
block_cells(b, block_row, block_col) ==
    LET start_row == ((block_row - 1) * b) + 1
        start_col == ((block_col - 1) * b) + 1
        finish_row == start_row + b
        finish_col == start_col + b
        rows == range(start_row, finish_row)
        cols == range(start_col, finish_col)
    IN [k \in 1..(Len(rows) * Len(cols)) |->
          <<rows[((k - 1) \div Len(cols)) + 1], cols[((k - 1) % Len(cols)) + 1]>>]

check_block(t, b, block_row, block_col) ==
    LET visited == block_cells(b, block_row, block_col)
        values == [k \in 1..Len(visited) |-> get(t, visited[k][1], visited[k][2])]
    IN check_unique_list(values)

check_rows(t, b) == \A row \in 1..size(b) : check_row(t, row)

check_cols(t, b) == \A col \in 1..size(b) : check_col(t, col)

\* the loops start at block 1 and keep their upper limit
check_blocks_args_from1(b) ==
    LET r == range(1, b)
    IN {<<r[i], r[j]>> : i, j \in 1..Len(r)}

\* for row in range(self._block_size): for col in range(self._block_size)
check_blocks_args(b) ==
    LET r == range(0, b)
    IN {<<r[i], r[j]>> : i, j \in 1..Len(r)}

check_blocks(t, b) ==
    \A arg \in check_blocks_args(b) : check_block(t, b, arg[1], arg[2])

check(t, b) == check_rows(t, b) /\ check_cols(t, b) /\ check_blocks(t, b)

\* the block of the cell is not checked
check_cell_noblock(t, b, row, col) == check_row(t, row) /\ check_col(t, col)

check_cell(t, b, row, col) ==
    LET block_row == ((row - 1) \div b) + 1
        block_col == ((col - 1) \div b) + 1
    IN /\ check_row(t, row)
       /\ check_col(t, col)
       /\ check_block(t, b, block_row, block_col)

\* -------------------------------------------------------- SmartSuduko --
\* the rejected value is left in the cell
Smart_set_norestore(t, b, row, col, value) ==
    LET placed == set(t, row, col, value)
    IN IF placed.exc # "none" THEN placed
       ELSE IF ~check_cell(placed.table, b, row, col)
       THEN Raise("ValueError", "The value is not allowed in this cell",
                  placed.table)
       ELSE placed

Smart_set(t, b, row, col, value) ==
    LET temp == get(t, row, col)
        placed == set(t, row, col, value)
    IN IF ~InRange(t, row, col)
       THEN Raise("IndexError", "list index out of range", t)
       ELSE IF placed.exc # "none" THEN placed
       ELSE IF ~check_cell(placed.table, b, row, col)
       THEN Raise("ValueError", "The value is not allowed in this cell",
                  set(placed.table, row, col, CellValue(temp)).table)
       ELSE placed

next_cell(n, row, col) ==
    IF col = n THEN <<row + 1, 1>> ELSE <<row, col + 1>>

is_at_end(n, row, col) == row > n \/ col > n

\* the loop stops one candidate short: range(1, self._size)
candidates_short(n) == range(1, n)

\* the candidates are tried from the largest down: range(self._size, 0, -1)
candidates_down(n) == [k \in 1..n |-> n + 1 - k]

\* for i in range(1, self._size + 1)
candidates(n) == range(1, n + 1)

\* the test for a pre-filled cell never holds
is_prefilled_never(t, row, col) == FALSE

\* self.get(row, col) is not None
is_prefilled(t, row, col) == get(t, row, col) # None

\* ------------------------------------------------------- state machine --
n == size(block_size)

Cells == (1..n) \X (1..n)

\* Values the callers hand to set: None, integers inside and outside 1..n,
\* and a value that is not an integer.
SetValues ==
    {NoneValue, OtherValue}
        \cup {IntValue(k) : k \in {0, n + 1} \cup (1..(IF MaxValue < n THEN MaxValue ELSE n))}

\* Cells the callers of the full machine address: the top band of blocks
\* (rows 1..b).  The solver and the checks work on the whole board.
SetCells == {cell \in Cells : cell[1] <= block_size}

Idle == stack = <<>>

\* The board is at rest and a further set, clear or reset call is made on it
Callable == Idle /\ calls < MaxCalls

\* The last call made on the board and how it ended: the exception and
\* its message, or the value returned (1 for True, 0 for False or None).
Result(op, exc, msg, val) == [op |-> op, exc |-> exc, msg |-> msg, val |-> val]

\* What a successful set stores, as the caller sees it.
Stored(value) == IF value.kind = "None" THEN None ELSE value.int

\* A second board of the same block size, as it is when nothing has been
\* called on it: its cells, what its last call returned, its cells before
\* that call, and the candidates that call tried.
Board(t, a) ==
    [table |-> t, ret |-> "none", outcome |-> Result("init", "none", "", 0),
     pre |-> t, assigned |-> a, trials |-> <<>>]

Init ==
    /\ block_size \in BlockSizes
    /\ table = build_table(block_size)
    /\ stack = <<>>
    /\ ret = "none"
    /\ outcome = Result("init", "none", "", 0)
    /\ pre = table
    /\ calls = 0
    /\ assigned = [cell \in Cells |-> None]
    /\ trials = <<>>
    /\ twin = Board(table, assigned)

\* SudokuTable.set(row, col, value), the unchecked set
SetCall(row, col, value) ==
    /\ Callable
    /\ LET r == set(table, row, col, value)
       IN /\ table' = r.table
          /\ outcome' = Result("SudokuTable.set", r.exc, r.msg, 0)
          /\ assigned' = IF r.exc = "none" /\ <<row, col>> \in Cells
                         THEN [assigned EXCEPT ![<<row, col>>] = Stored(value)]
                         ELSE assigned
    /\ calls' = calls + 1
    /\ UNCHANGED <<block_size, stack, ret, pre, trials, twin>>

\* SmartSuduko does not override set: the call runs SudokuTable.set
SmartSetCall_unchecked(row, col, value) ==
    /\ Callable
    /\ LET r == set(table, row, col, value)
       IN /\ table' = r.table
          /\ outcome' = Result("SmartSuduko.set", r.exc, r.msg, 0)
          /\ assigned' = IF r.exc = "none" /\ <<row, col>> \in Cells
                         THEN [assigned EXCEPT ![<<row, col>>] = Stored(value)]
                         ELSE assigned
    /\ calls' = calls + 1
    /\ UNCHANGED <<block_size, stack, ret, pre, trials, twin>>

\* SmartSuduko.set(row, col, value), the constrained set
SmartSetCall(row, col, value) ==
    /\ Callable
    /\ LET r == Smart_set(table, block_size, row, col, value)
       IN /\ table' = r.table
          /\ outcome' = Result("SmartSuduko.set", r.exc, r.msg, 0)
          /\ assigned' = IF r.exc = "none" /\ <<row, col>> \in Cells
                         THEN [assigned EXCEPT ![<<row, col>>] = Stored(value)]
                         ELSE assigned
    /\ calls' = calls + 1
    /\ UNCHANGED <<block_size, stack, ret, pre, trials, twin>>

GetCall(row, col) ==
    /\ Idle
    /\ outcome' = IF InRange(table, row, col)
                  THEN Result("get", "none", "", get(table, row, col))
                  ELSE Result("get", "IndexError", "list index out of range", 0)
    /\ UNCHANGED <<block_size, table, stack, ret, pre, calls, assigned, trials, twin>>

ClearCall(row, col) ==
    /\ Callable
    /\ IF InRange(table, row, col)
       THEN /\ table' = clear(table, row, col)
            /\ outcome' = Result("clear", "none", "", 0)
       ELSE /\ table' = table
            /\ outcome' = Result("clear", "IndexError", IndexMessage(table, row), 0)
    /\ assigned' = IF InRange(table, row, col) /\ <<row, col>> \in Cells
                   THEN [assigned EXCEPT ![<<row, col>>] = None]
                   ELSE assigned
    /\ calls' = calls + 1
    /\ UNCHANGED <<block_size, stack, ret, pre, trials, twin>>

\* the new table is built with the block size for its side
ResetCall_block_size ==
    /\ Callable
    /\ table' = [r \in 1..block_size |-> [c \in 1..block_size |-> None]]
    /\ outcome' = Result("reset", "none", "", 0)
    /\ assigned' = [cell \in Cells |-> None]
    /\ calls' = calls + 1
    /\ UNCHANGED <<block_size, stack, ret, pre, trials, twin>>

\* reset(): self._table = self.__build_table()
ResetCall ==
    /\ Callable
    /\ table' = build_table(block_size)
    /\ outcome' = Result("reset", "none", "", 0)
    /\ assigned' = [cell \in Cells |-> None]
    /\ calls' = calls + 1
    /\ UNCHANGED <<block_size, stack, ret, pre, trials, twin>>

\* check(): val is 1 for True and 0 for False
CheckCall ==
    /\ Idle
    /\ outcome' = Result("check", "none", "",
                         IF check(table, block_size) THEN 1 ELSE 0)
    /\ UNCHANGED <<block_size, table, stack, ret, pre, calls, assigned, trials, twin>>

CheckCellCall(row, col) ==
    /\ Idle
    /\ outcome' = Result("check_cell", "none", "",
                         IF check_cell(table, block_size, row, col) THEN 1 ELSE 0)
    /\ UNCHANGED <<block_size, table, stack, ret, pre, calls, assigned, trials, twin>>

\* ------------------------------------------------ SmartSuduko.__solve --
\* One frame of __solve(row, col): pc is "enter" at the call, "try" before
\* the trial of candidate i, "wait" while the recursive call of the
\* candidate loop runs, "skip" while the recursive call of a pre-filled
\* cell runs, and "exhausted" after the loop.
Frame(row, col, i, pc) == [row |-> row, col |-> col, i |-> i, pc |-> pc]

Top == stack[Len(stack)]

Pop == SubSeq(stack, 1, Len(stack) - 1)

Retarget(frame) == [stack EXCEPT ![Len(stack)] = frame]

Call(row, col) == Frame(row, col, 0, "enter")

\* after the last candidate the loop starts again at the first
AfterCandidate_again(frame) ==
    IF frame.i < Len(candidates(n))
    THEN Frame(frame.row, frame.col, frame.i + 1, "try")
    ELSE Frame(frame.row, frame.col, 1, "try")

\* The frame after candidate i is done with: the next candidate, or the
\* end of the loop.
AfterCandidate(frame) ==
    IF frame.i < Len(candidates(n))
    THEN Frame(frame.row, frame.col, frame.i + 1, "try")
    ELSE Frame(frame.row, frame.col, frame.i, "exhausted")

\* fill_randomly(): return self.__solve(1, 1)
SolveCall ==
    /\ Idle
    /\ stack' = <<Call(1, 1)>>
    /\ ret' = "none"
    /\ pre' = table
    /\ outcome' = Result("solve", "running", "", 0)
    /\ trials' = <<>>
    /\ UNCHANGED <<block_size, table, calls, assigned, twin>>

\* if self.__is_at_end(row, col): return True
SolveAtEnd ==
    /\ ~Idle
    /\ Top.pc = "enter"
    /\ is_at_end(n, Top.row, Top.col)
    /\ stack' = Pop
    /\ ret' = "True"
    /\ outcome' = IF Pop = <<>> THEN Result("solve", "none", "", 1) ELSE outcome
    /\ UNCHANGED <<block_size, table, pre, calls, assigned, trials, twin>>

\* if self.get(row, col) is not None: return self.__solve(next_row, next_col)
SolveSkip ==
    /\ ~Idle
    /\ Top.pc = "enter"
    /\ ~is_at_end(n, Top.row, Top.col)
    /\ is_prefilled(table, Top.row, Top.col)
    /\ LET nxt == next_cell(n, Top.row, Top.col)
       IN stack' = Append(Retarget(Frame(Top.row, Top.col, 0, "skip")),
                          Call(nxt[1], nxt[2]))
    /\ UNCHANGED <<block_size, table, ret, outcome, pre, calls, assigned, trials, twin>>

\* the loop starts at the last candidate once another board has been solved
SolveLoop_shared ==
    /\ ~Idle
    /\ Top.pc = "enter"
    /\ ~is_at_end(n, Top.row, Top.col)
    /\ ~is_prefilled(table, Top.row, Top.col)
    /\ stack' = Retarget(Frame(Top.row, Top.col,
                               IF twin.outcome.op = "solve" THEN Len(candidates(n)) ELSE 1,
                               "try"))
    /\ UNCHANGED <<block_size, table, ret, outcome, pre, calls, assigned, trials, twin>>

\* the cell is empty: enter the candidate loop
SolveLoop ==
    /\ ~Idle
    /\ Top.pc = "enter"
    /\ ~is_at_end(n, Top.row, Top.col)
    /\ ~is_prefilled(table, Top.row, Top.col)
    /\ stack' = Retarget(IF Len(candidates(n)) > 0
                         THEN Frame(Top.row, Top.col, 1, "try")
                         ELSE Frame(Top.row, Top.col, 0, "exhausted"))
    /\ UNCHANGED <<block_size, table, ret, outcome, pre, calls, assigned, trials, twin>>

\* the except clause catches nothing
Caught_nothing == {}

\* except ValueError:
Caught == {"ValueError"}

\* try: self.set(row, col, i)  except ValueError: continue
\* otherwise path_found = self.__solve(next_row, next_col)
\* An exception other than ValueError is not caught: it leaves every frame.
SolveTry ==
    /\ ~Idle
    /\ Top.pc = "try"
    /\ \E r \in {Smart_set(table, block_size, Top.row, Top.col,
                            IntValue(candidates(n)[Top.i]))} :
       LET i == candidates(n)[Top.i]
           nxt == next_cell(n, Top.row, Top.col)
       IN /\ table' = r.table
          /\ assigned' = IF r.exc = "none"
                         THEN [assigned EXCEPT ![<<Top.row, Top.col>>] = i]
                         ELSE assigned
          /\ stack' = IF r.exc \in Caught
                      THEN Retarget(AfterCandidate(Top))
                      ELSE IF r.exc = "none"
                      THEN Append(Retarget(Frame(Top.row, Top.col, Top.i, "wait")),
                                  Call(nxt[1], nxt[2]))
                      ELSE <<>>
          /\ outcome' = IF r.exc \in Caught \cup {"none"}
                        THEN outcome
                        ELSE Result("solve", r.exc, r.msg, 0)
          /\ trials' = Append(trials, <<Top.row, Top.col, i>>)
    /\ UNCHANGED <<block_size, ret, pre, calls, twin>>

\* the recursive call has returned ret to this frame
SolveReturn ==
    /\ ~Idle
    /\ Top.pc \in {"wait", "skip"}
    /\ ret # "none"
    /\ IF Top.pc = "skip" \/ ret = "True"
       THEN /\ stack' = Pop
            /\ ret' = ret
            /\ outcome' = IF Pop = <<>>
                          THEN Result("solve", "none", "", IF ret = "True" THEN 1 ELSE 0)
                          ELSE outcome
       ELSE /\ stack' = Retarget(AfterCandidate(Top))
            /\ ret' = "none"
            /\ outcome' = outcome
    /\ UNCHANGED <<block_size, table, pre, calls, assigned, trials, twin>>

\* the loop ends and the frame returns False without clearing its cell
SolveExhaust_noclear ==
    /\ ~Idle
    /\ Top.pc = "exhausted"
    /\ stack' = Pop
    /\ ret' = "False"
    /\ outcome' = IF Pop = <<>> THEN Result("solve", "none", "", 0) ELSE outcome
    /\ UNCHANGED <<block_size, table, pre, calls, assigned, trials, twin>>

\* self.clear(row, col); return False
SolveExhaust ==
    /\ ~Idle
    /\ Top.pc = "exhausted"
    /\ table' = clear(table, Top.row, Top.col)
    /\ assigned' = [assigned EXCEPT ![<<Top.row, Top.col>>] = None]
    /\ stack' = Pop
    /\ ret' = "False"
    /\ outcome' = IF Pop = <<>> THEN Result("solve", "none", "", 0) ELSE outcome
    /\ UNCHANGED <<block_size, pre, calls, trials, twin>>

SolveStep ==
    \/ SolveAtEnd
    \/ SolveSkip
    \/ SolveLoop
    \/ SolveTry
    \/ SolveReturn
    \/ SolveExhaust

Next ==
    \/ \E cell \in SetCells : \E value \in SetValues : SetCall(cell[1], cell[2], value)
    \/ \E cell \in SetCells : \E value \in SetValues : SmartSetCall(cell[1], cell[2], value)
    \/ \E cell \in SetCells : ClearCall(cell[1], cell[2])
    \/ ResetCall
    \/ SolveCall
    \/ SolveStep

Spec == Init /\ [][Next]_vars

\* ----------------------------------------- the constrained board alone --
\* A SmartSuduko driven through its own methods: the constrained set,
\* clear, reset and solve.
NextSmart ==
    \/ \E cell \in SetCells : \E value \in SetValues : SmartSetCall(cell[1], cell[2], value)
    \/ \E cell \in SetCells : ClearCall(cell[1], cell[2])
    \/ ResetCall
    \/ SolveCall
    \/ SolveStep

SpecSmart == Init /\ [][NextSmart]_vars

\* ------------------------------------------- the unchecked board alone --
\* A SudokuTable driven by set calls with values in 1..n or None, and get.
TableValues == {v \in SetValues : v.kind = "None" \/ (v.kind = "int" /\ v.int \in 1..n)}

NextTable ==
    \/ \E cell \in Cells : \E value \in TableValues : SetCall(cell[1], cell[2], value)
    \/ \E cell \in Cells : GetCall(cell[1], cell[2])

SpecTable == Init /\ [][NextTable]_vars

\* ------------------------------------- rows and columns off the board --
\* The rows and columns callers hand over: 1..n, and 0 and n + 1 next to it.
Indices == 0..(n + 1)

NextIndex ==
    \/ \E row \in Indices : \E col \in Indices : \E value \in TableValues :
          SetCall(row, col, value)
    \/ \E row \in Indices : \E col \in Indices : \E value \in TableValues :
          SmartSetCall(row, col, value)
    \/ \E row \in Indices : \E col \in Indices : GetCall(row, col)
    \/ \E row \in Indices : \E col \in Indices : ClearCall(row, col)

SpecIndex == Init /\ [][NextIndex]_vars

\* ------------------------------------------------ the solver on puzzles --
\* Rows the puzzles handed to solve() are made of.  The boards built from
\* them hold clues that can be completed, clues that repeat no value and
\* yet cannot be completed, and clues that repeat a value in a row, a
\* column or a block.
ClueRows(b) ==
    IF b = 1 THEN {<<None>>, <<1>>}
    ELSE {<<None, None, None, None>>,
          <<None, None, None, 2>>, <<1, None, None, None>>,
          <<None, None, 1, None>>, <<None, 3, None, None>>,
          <<None, None, 1, 1>>}

InitSolve ==
    /\ block_size \in BlockSizes
    /\ table \in [1..size(block_size) -> ClueRows(block_size)]
    /\ stack = <<>>
    /\ ret = "none"
    /\ outcome = Result("init", "none", "", 0)
    /\ pre = table
    /\ calls = 0
    /\ assigned = [cell \in Cells |-> table[cell[1]][cell[2]]]
    /\ trials = <<>>
    /\ twin = Board(table, assigned)

NextSolve ==
    \/ SolveCall
    \/ SolveStep

SpecSolve == InitSolve /\ [][NextSolve]_vars

\* ------------------------------------------- two boards, the same clues --
\* Rows of the grids two boards are built from: empty rows, rows that lack
\* two values, and the rows of a solved grid.  The boards hold clues with
\* one completion, with several and with none, clues that repeat a value,
\* and boards without any empty cell.
GridRows(b) ==
    IF b = 1 THEN {<<None>>, <<1>>}
    ELSE {<<None, None, None, None>>,
          <<None, 2, None, 4>>, <<None, 4, None, 2>>,
          <<1, 2, 3, 4>>, <<3, 4, 1, 2>>, <<2, 1, 4, 3>>, <<4, 3, 2, 1>>}

InitGrid ==
    /\ block_size \in BlockSizes
    /\ table \in [1..size(block_size) -> GridRows(block_size)]
    /\ stack = <<>>
    /\ ret = "none"
    /\ outcome = Result("init", "none", "", 0)
    /\ pre = table
    /\ calls = 0
    /\ assigned = [cell \in Cells |-> table[cell[1]][cell[2]]]
    /\ trials = <<>>
    /\ twin = Board(table, assigned)

\* The board at hand, as it is parked while the caller works on the other
Parked ==
    [table |-> table, ret |-> ret, outcome |-> outcome,
     pre |-> pre, assigned |-> assigned, trials |-> trials]

\* Between two calls the caller turns to the other board.
Swap ==
    /\ Idle
    /\ table' = twin.table
    /\ ret' = twin.ret
    /\ outcome' = twin.outcome
    /\ pre' = twin.pre
    /\ assigned' = twin.assigned
    /\ trials' = twin.trials
    /\ twin' = Parked
    /\ UNCHANGED <<block_size, stack, calls>>

NextTwin ==
    \/ SolveCall
    \/ SolveStep
    \/ Swap

SpecTwin == InitGrid /\ [][NextTwin]_vars

\* --------------------------------------------- the solver, kept running --
\* solve() on the grids above.  The interpreter runs a call that has begun
\* until it returns: a step of the search that can be taken is taken.
\* The starting boards are the grids whose lower half is empty or solved:
\* among them the empty board, full boards with and without a repeated
\* value, and clues with one completion, with several and with none.
InitFair ==
    /\ InitGrid
    /\ block_size = 2 =>
          /\ table[3] \in {<<None, None, None, None>>, <<2, 1, 4, 3>>}
          /\ table[4] \in {<<None, None, None, None>>, <<4, 3, 2, 1>>}

SpecFair == InitFair /\ [][NextSolve]_vars /\ WF_vars(SolveStep)

\* ------------------------------------------------- the checks on boards --
\* Rows the boards handed to the checks are made of: empty rows, rows of
\* a solved grid, and rows with a single 1 or with two.
RowPool(b) ==
    IF b = 1 THEN {<<None>>, <<1>>}
    ELSE {<<None, None, None, None>>,
          <<1, 2, 3, 4>>, <<3, 4, 1, 2>>, <<2, 1, 4, 3>>, <<4, 3, 2, 1>>,
          <<1, None, None, None>>, <<None, 1, None, None>>,
          <<None, None, 1, None>>, <<None, None, None, 1>>,
          <<1, None, 1, None>>}

BoardPool(b) == [1..size(b) -> RowPool(b)]

InitCheck ==
    /\ block_size \in BlockSizes
    /\ table \in BoardPool(block_size)
    /\ stack = <<>>
    /\ ret = "none"
    /\ outcome = Result("init", "none", "", 0)
    /\ pre = table
    /\ calls = 0
    /\ assigned = [cell \in Cells |-> table[cell[1]][cell[2]]]
    /\ trials = <<>>
    /\ twin = Board(table, assigned)

NextCheck ==
    \/ CheckCall
    \/ \E cell \in Cells : CheckCellCall(cell[1], cell[2])

SpecCheck == InitCheck /\ [][NextCheck]_vars

\* ---------------------------------------------- vocabulary of the claims --
\* The rules of the puzzle, stated on cell positions without any list
\* indexing: a unit is a row, a column or a block of the board.
Positions(m) == (1..m) \X (1..m)

Val(t, cell) == t[cell[1]][cell[2]]

RowUnit(m, r) == {r} \X (1..m)

ColUnit(m, c) == (1..m) \X {c}

BlockUnit(b, br, bc) ==
    (((br - 1) * b + 1)..(br * b)) \X (((bc - 1) * b + 1)..(bc * b))

Units(b) ==
    {RowUnit(size(b), r) : r \in 1..size(b)}
        \cup {ColUnit(size(b), c) : c \in 1..size(b)}
        \cup {BlockUnit(b, br, bc) : br \in 1..b, bc \in 1..b}

NoRepeat(t, unit) ==
    \A x \in unit : \A y \in unit :
        (x # y /\ Val(t, x) # None) => Val(t, x) # Val(t, y)

Valid(t, b) == \A unit \in Units(b) : NoRepeat(t, unit)

Filled(t) == \A cell \in Positions(Len(t)) : Val(t, cell) # None

\* solve() was called last and has returned v (1 for True, 0 for False)
SolveReturned(v) == Idle /\ outcome = Result("solve", "none", "", v)

\* solve() was called last: it is running or it has ended
Solving == outcome.op = "solve"

\* The orderings of 1..m
Perms(m) ==
    {p \in [1..m -> 1..m] : \A i \in 1..m : \A j \in 1..m : i # j => p[i] # p[j]}

\* The orderings of a row, for each side of a board
RowOrders == [m \in {size(b) : b \in BlockSizes} |-> Perms(m)]

\* The first rows of a grid, the other rows left empty
Padded(rows, m) ==
    [r \in 1..m |-> IF r <= Len(rows) THEN rows[r] ELSE [c \in 1..m |-> None]]

\* rows, a valid choice for the first rows, extends to a full valid grid
\* that agrees with the clues
RECURSIVE Completes(_, _, _)
Completes(clues, b, rows) ==
    IF Len(rows) = size(b) THEN TRUE
    ELSE \E p \in RowOrders[size(b)] :
            LET k == Len(rows) + 1
                grid == Append(rows, p)
            IN /\ \A c \in 1..size(b) : clues[k][c] # None => p[c] = clues[k][c]
               /\ Valid(Padded(grid, size(b)), b)
               /\ Completes(clues, b, grid)

HasCompletion(clues, b) == Completes(clues, b, <<>>)

\* cell x comes before cell y in row-major order
Before(x, y) == x[1] < y[1] \/ (x[1] = y[1] /\ x[2] < y[2])

\* C1: whenever solve() returns success, every cell of the board is filled
\* and check() on the board returns true.
C1_SuccessIsSolved ==
    SolveReturned(1) => (Filled(table) /\ check(table, block_size))

\* C2: whenever solve() returns failure, every cell of the board equals the
\* value it held before the call, whatever the starting board.
C2_FailureRestores == SolveReturned(0) => table = pre

\* solve() has failed on clues that repeat a value in a row, and clues are
\* left on the board
C2_Witness ==
    /\ SolveReturned(0)
    /\ n = 4
    /\ Val(pre, <<1, 1>>) = None
    /\ \E r \in 2..n : ~NoRepeat(pre, RowUnit(n, r))
    /\ table = pre

\* C3: solve() returns failure only if the clues have no completion: when
\* the starting board has a completion in which every row, column and
\* block holds each value once, solve() returns success.
C3_FailureOnlyIfUnsolvable ==
    (Idle /\ Solving /\ HasCompletion(pre, block_size)) => SolveReturned(1)

\* solve() has succeeded on the empty 4 x 4 board
C3_Witness ==
    /\ SolveReturned(1)
    /\ n = 4
    /\ \A cell \in Positions(n) : Val(pre, cell) = None
    /\ Filled(table)

\* C4: a starting board whose clues repeat a value in a row, column or
\* block makes solve() report failure, wherever its empty cells are.
C4_MalformedFails ==
    (Idle /\ Solving /\ ~Valid(pre, block_size)) => SolveReturned(0)

\* C5: a cell that holds a value when solve() is called holds that value
\* in every state of the search and when solve() returns.
C5_CluesKept ==
    Solving =>
        \A cell \in Positions(n) :
            Val(pre, cell) # None => Val(table, cell) = Val(pre, cell)

\* the search has gone past a clue and has placed values of its own
C5_Witness ==
    /\ ~Idle
    /\ table # pre
    /\ \E cell \in Positions(n) :
          Val(pre, cell) # None /\ Before(cell, <<Top.row, Top.col>>)

\* The block that holds a cell
BlockOf(b, cell) ==
    CHOOSE unit \in {BlockUnit(b, br, bc) : br \in 1..b, bc \in 1..b} : cell \in unit

\* The cells one call of check_block reads, as positions of the board
CellsRead(b, block_row, block_col) ==
    LET visited == block_cells(b, block_row, block_col)
    IN {<<PyIndex(size(b), visited[k][1] - 1), PyIndex(size(b), visited[k][2] - 1)>> :
           k \in 1..Len(visited)}

\* C6: check() returns true exactly when no row, no column and no block
\* (block_row, block_col) with block_row, block_col in 1..b repeats a
\* value, and the blocks check_blocks reads are exactly those b*b blocks.
C6_CheckIsAllUnits ==
    /\ check(table, block_size) <=> Valid(table, block_size)
    /\ {CellsRead(block_size, arg[1], arg[2]) : arg \in check_blocks_args(block_size)}
           = {BlockUnit(block_size, br, bc) : br \in 1..block_size, bc \in 1..block_size}

\* check() has returned False on a board whose only repeated value lies in
\* the last block
C6_Witness ==
    /\ outcome = Result("check", "none", "", 0)
    /\ n = 4
    /\ \A k \in 1..n : NoRepeat(table, RowUnit(n, k)) /\ NoRepeat(table, ColUnit(n, k))
    /\ ~NoRepeat(table, BlockUnit(block_size, block_size, block_size))
    /\ NoRepeat(table, BlockUnit(block_size, 1, 1))

\* C7: on a fully filled board check_cell is true of every cell exactly
\* when check() is true, and check_cell(r, c) is true exactly when row r,
\* column c and the block holding (r, c) repeat no value.
C7_CellChecksAgreeWithCheck ==
    /\ Filled(table) =>
          ((\A cell \in Cells : check_cell(table, block_size, cell[1], cell[2]))
              <=> check(table, block_size))
    /\ \A cell \in Cells :
          check_cell(table, block_size, cell[1], cell[2])
              <=> /\ NoRepeat(table, RowUnit(n, cell[1]))
                  /\ NoRepeat(table, ColUnit(n, cell[2]))
                  /\ NoRepeat(table, BlockOf(block_size, cell))

\* check_cell has returned False on a full board whose rows and columns
\* repeat no value
C7_Witness ==
    /\ outcome = Result("check_cell", "none", "", 0)
    /\ Filled(table)
    /\ \A k \in 1..n : NoRepeat(table, RowUnit(n, k)) /\ NoRepeat(table, ColUnit(n, k))

\* The cells that share a row, a column or a block with a cell
Peers(b, cell) ==
    (RowUnit(size(b), cell[1]) \cup ColUnit(size(b), cell[2]) \cup BlockOf(b, cell))
        \ {cell}

\* C8: on every board it is called on, the constrained set with a value in
\* 1..n that repeats a value of the cell's row, column or block raises
\* ValueError and changes no cell; when no repetition results the cell holds
\* the value and no other cell changes.
C8_ConstrainedSet ==
    Callable =>
        \A cell \in Cells : \A v \in 1..n :
            LET r == Smart_set(table, block_size, cell[1], cell[2], IntValue(v))
                want == [table EXCEPT ![cell[1]][cell[2]] = v]
            IN /\ (\E y \in Peers(block_size, cell) : Val(table, y) = v)
                    => (r.exc = "ValueError" /\ r.table = table)
               /\ (/\ NoRepeat(want, RowUnit(n, cell[1]))
                   /\ NoRepeat(want, ColUnit(n, cell[2]))
                   /\ NoRepeat(want, BlockOf(block_size, cell)))
                    => (r.exc = "none" /\ r.table = want)

\* the constrained set has refused a value on a board that holds values
C8_Witness ==
    /\ outcome = Result("SmartSuduko.set", "ValueError",
                        "The value is not allowed in this cell", 0)
    /\ \E cell \in Cells : Val(table, cell) # None

\* Values set must refuse: integers next to and beyond both ends of 1..n
BadIntegers == {-1, 0, n + 1, n + 2}

\* C9: set with an integer outside 1..n raises ValueError, with a value
\* that is neither an integer nor None raises TypeError, and in both cases
\* no cell changes, on the unchecked and on the constrained board.
C9_BadValueRejected ==
    Callable =>
        \A cell \in Cells :
            /\ \A k \in BadIntegers :
                  LET plain == set(table, cell[1], cell[2], IntValue(k))
                      smart == Smart_set(table, block_size, cell[1], cell[2], IntValue(k))
                  IN /\ plain.exc = "ValueError" /\ plain.table = table
                     /\ smart.exc = "ValueError" /\ smart.table = table
            /\ LET plain == set(table, cell[1], cell[2], OtherValue)
                   smart == Smart_set(table, block_size, cell[1], cell[2], OtherValue)
               IN /\ plain.exc = "TypeError" /\ plain.table = table
                  /\ smart.exc = "TypeError" /\ smart.table = table

\* the constrained set has refused a value of the wrong type on a board
\* that holds values
C9_Witness ==
    /\ outcome = Result("SmartSuduko.set", "TypeError",
                        "Value must be an integer (or None)", 0)
    /\ \E cell \in Cells : Val(table, cell) # None

\* C10: on the unchecked board, after any sequence of set calls get(r, c)
\* is the last value assigned to (r, c), None if there was none.
C10_GetReturnsLastAssigned ==
    \A cell \in Cells : get(table, cell[1], cell[2]) = assigned[cell]

\* get has returned a value after two cells were assigned
C10_Witness ==
    /\ outcome = Result("get", "none", "", 1)
    /\ calls >= 2
    /\ \E x \in Cells : \E y \in Cells :
          x # y /\ assigned[x] # None /\ assigned[y] # None

\* C11: on every board state clear(row, col) and set(row, col, None) end
\* the same way on the unchecked and on the constrained board: neither
\* raises, and both leave the cell empty and every other cell unchanged.
C11_ClearIsSetEmpty ==
    Idle =>
        \A cell \in Cells :
            LET cleared == clear(table, cell[1], cell[2])
                plain == set(table, cell[1], cell[2], NoneValue)
                smart == Smart_set(table, block_size, cell[1], cell[2], NoneValue)
            IN /\ cleared = [table EXCEPT ![cell[1]][cell[2]] = None]
               /\ plain.exc = "none" /\ plain.table = cleared
               /\ smart.exc = "none" /\ smart.table = cleared

\* C12: solve() never hands an exception to its caller: while it runs no
\* exception has left it, when it is over it has returned True or False,
\* and a candidate the constrained set refuses is caught in the frame that
\* tried it, which goes on to its next candidate or to the end of its loop.
C12_SolveNeverRaises ==
    /\ [](Solving =>
            IF Idle
            THEN outcome.exc = "none" /\ outcome.val \in {0, 1}
            ELSE outcome.exc = "running")
    /\ [][(/\ ~Idle
           /\ Top.pc = "try"
           /\ Smart_set(table, block_size, Top.row, Top.col,
                        IntValue(candidates(n)[Top.i])).exc # "none")
            => (/\ Len(stack') = Len(stack)
                /\ stack'[Len(stack)] = AfterCandidate(Top)
                /\ outcome' = outcome)]_vars

\* solve() has returned after a frame went from a refused candidate to
\* the next candidate of the same cell
C12_Witness ==
    /\ Idle
    /\ Solving
    /\ n = 4
    /\ \E k \in 1..(Len(trials) - 1) :
          /\ trials[k + 1][1] = trials[k][1]
          /\ trials[k + 1][2] = trials[k][2]
          /\ trials[k + 1][3] = trials[k][3] + 1

\* C13: set, get and clear called with a row or a column outside 1..n
\* raise IndexError, get hands back no cell's value and set and clear
\* change no cell.
C13_OutOfRangeRaises ==
    [][\A row \in Indices : \A col \in Indices :
          (row \notin 1..n \/ col \notin 1..n) =>
              /\ \A value \in TableValues :
                    /\ SetCall(row, col, value)
                          => (outcome'.exc = "IndexError" /\ table' = table)
                    /\ SmartSetCall(row, col, value)
                          => (outcome'.exc = "IndexError" /\ table' = table)
              /\ GetCall(row, col) => outcome'.exc = "IndexError"
              /\ ClearCall(row, col)
                    => (outcome'.exc = "IndexError" /\ table' = table)]_vars

\* solve() has been called on both boards, on the same clues, and both
\* calls are over
BothSolved ==
    /\ Idle
    /\ outcome.op = "solve"
    /\ twin.outcome.op = "solve"
    /\ pre = twin.pre

C15_ResetEmptiesBoard ==
    [][ResetCall =>
          /\ block_size' = block_size
          /\ Len(table') = n
          /\ \A r \in 1..n : Len(table'[r]) = n
          /\ \A cell \in Cells : get(table', cell[1], cell[2]) = None
          /\ check(table', block_size')
          /\ build_table(block_size') = table']_vars

\* reset() has been called on a board that held values: solve() had run on it
C15_Witness ==
    /\ outcome = Result("reset", "none", "", 0)
    /\ n = 4
    /\ Len(trials) >= n * n
    /\ \A cell \in Cells : Val(table, cell) = None

\* C16: a SmartSuduko board driven from the empty board by constrained set,
\* clear, reset and solve() satisfies check() in every state: after every
\* call, and inside solve() after every candidate the constrained set
\* accepts and after every candidate it refuses.
C16_BoardStaysValid == check(table, block_size)

\* a frame of the search has had a candidate refused after it took back an
\* accepted one, on clues the caller has set
C16_Witness ==
    /\ ~Idle
    /\ n = 4
    /\ pre # build_table(block_size)
    /\ Top.pc = "try"
    /\ Top.i > 2
    /\ Val(table, <<Top.row, Top.col>>) # None
    /\ Val(table, <<Top.row, Top.col>>) < Top.i - 1

\* The cell of the frame at work
Cursor == <<Top.row, Top.col>>

\* C17: whenever a frame of the search is about to try a candidate at its
\* cell, and whenever a call has just reported failure to it, every cell
\* before that cell in row-major order holds a value and every cell after
\* it that was empty when solve() was called is empty.
C17_CursorSplitsBoard ==
    (~Idle /\ (Top.pc = "try" \/ ret = "False")) =>
        \A cell \in Positions(n) :
            /\ Before(cell, Cursor) => Val(table, cell) # None
            /\ (Before(Cursor, cell) /\ Val(pre, cell) = None)
                  => Val(table, cell) = None

\* a frame is about to try its next candidate after the search below its
\* last one came to a dead end: its cell still holds that candidate, and
\* cells after it were empty at the call
C17_Witness ==
    /\ ~Idle
    /\ Top.pc = "try"
    /\ n = 4
    /\ Val(pre, Cursor) = None
    /\ Top.i >= 2
    /\ Val(table, Cursor) = Top.i - 1
    /\ Cardinality({cell \in Positions(n) :
                       Before(Cursor, cell) /\ Val(pre, cell) = None}) >= 2

\* The frames both stacks hold
Kept(old, new) == 1..(IF Len(old) < Len(new) THEN Len(old) ELSE Len(new))

\* C18: solve() terminates on every starting board: a call that has begun
\* returns True or False.  The first frame is at (1, 1) and every other
\* frame at the cell __next_cell gives for the frame below it; a frame
\* stays at its cell and its candidate only goes up, to n at most; and
\* the stack never holds more than n * n + 1 frames.
C18_SolveTerminates ==
    /\ (~Idle) ~> (Idle /\ outcome.exc = "none" /\ outcome.val \in {0, 1})
    /\ [](/\ Len(stack) <= n * n + 1
          /\ \A k \in 1..Len(stack) :
                /\ stack[k].i <= n
                /\ <<stack[k].row, stack[k].col>> =
                      IF k = 1 THEN <<1, 1>>
                      ELSE next_cell(n, stack[k - 1].row, stack[k - 1].col))
    /\ [][\A k \in Kept(stack, stack') :
             /\ stack'[k].row = stack[k].row
             /\ stack'[k].col = stack[k].col
             /\ stack'[k].i >= stack[k].i]_vars

\* the search is n * n + 1 frames deep after it has gone back on a candidate
C18_Witness ==
    /\ n = 4
    /\ Len(stack) = n * n + 1
    /\ Len(trials) > n * n
    /\ \E cell \in Positions(n) : Val(pre, cell) = None

\* The clues, with the cells before a cell taken from a grid and the cell
\* itself set to v
Prefixed(clues, grid, cell, v) ==
    [r \in 1..Len(clues) |->
        [c \in 1..Len(clues) |->
            IF <<r, c>> = cell THEN v
            ELSE IF Before(<<r, c>>, cell) THEN Val(grid, <<r, c>>)
            ELSE Val(clues, <<r, c>>)]]

\* C19: when solve() returns success on clues that satisfy check(), the
\* grid is a completion of the clues that repeats no value, and no such
\* completion comes before it when the cells are read in row-major order:
\* a grid that agrees with it before some cell and holds a smaller value
\* there is no completion of the clues.
C19_FirstSolution ==
    (SolveReturned(1) /\ check(pre, block_size)) =>
        /\ Filled(table)
        /\ Valid(table, block_size)
        /\ \A cell \in Positions(n) :
              /\ Val(pre, cell) # None => Val(table, cell) = Val(pre, cell)
              /\ Val(pre, cell) = None =>
                    \A v \in 1..(Val(table, cell) - 1) :
                        LET tried == Prefixed(pre, table, cell, v)
                        IN \/ ~Valid(tried, block_size)
                           \/ ~HasCompletion(tried, block_size)

\* solve() has succeeded after it gave up a smaller value that no row,
\* column or block ruled out when it was tried
C19_Witness ==
    /\ SolveReturned(1)
    /\ check(pre, block_size)
    /\ n = 4
    /\ \E cell \in Positions(n) :
          /\ Val(pre, cell) = None
          /\ \E v \in 1..(Val(table, cell) - 1) :
                Valid(Prefixed(pre, table, cell, v), block_size)

====
